---- MODULE Spec2Model ----
(***************************************************************************)
(* Model of chacha20_rng (src/chacha20_rng/src/main.rs): a command-line    *)
(* program that resolves three positional arguments, drives a ChaCha20     *)
(* cipher in chunks of num_bytes bytes and expands every chunk into bits.  *)
(*                                                                         *)
(* A u64 is modelled by the set of the positions (0 = least significant)   *)
(* of its one-bits, a subset of 0..63: OR is union, AND is intersection,   *)
(* a left shift adds to every position and drops what leaves the word.     *)
(* A byte is a number in 0..255, a String a sequence of one-character      *)
(* strings.  Values of type usize are naturals; every usize the model      *)
(* reaches is far below 2^31, so the casts `as u32` of lines 74-75 and the *)
(* sum bpv + 7 of line 52 neither truncate nor overflow here.              *)
(***************************************************************************)
EXTENDS Integers, Sequences, FiniteSets, TLC

VARIABLES
    args,             \* std::env::args(): program name, then the arguments
    n_bits,           \* main: n_bits, passed to chacha20_bit_stream
    bits_per_value,   \* main: bits_per_value
    msb_first,        \* main: msb_first
    bpv,              \* chacha20_bit_stream: bpv
    num_bytes,        \* chacha20_bit_stream: num_bytes
    cipher,           \* chacha20_bit_stream: cipher (its keystream position)
    buffer,           \* chacha20_bit_stream: buffer
    val,              \* chacha20_bit_stream: val of the last iteration
    output,           \* chacha20_bit_stream: output
    elapsed,          \* chacha20_bit_stream: the f64 it returns
    stdout,           \* the lines printed by main
    pc,               \* "start", "loop", "exited" or "panicked"
    overflow_checks,  \* the build: TRUE for dev (checked), FALSE for release
    runs,             \* how many times the program has been started
    prev,             \* the call and the output of the run before this one
    fn_in,            \* the arguments handed to a function applied on its own
    fn_out            \* and what it gave back

vars == <<args, n_bits, bits_per_value, msb_first, bpv, num_bytes, cipher,
          buffer, val, output, elapsed, stdout, pc, overflow_checks, runs,
          prev, fn_in, fn_out>>

(***************************************************************************)
(* Bounds of the model.                                                    *)
(***************************************************************************)
\* the largest n_bits written out as an argument
MaxNBits == 5
\* the largest width handed to int_to_bits and to the extraction on their own
MaxWidth == 66
\* the clock readings a measured run can return: 0..MaxElapsed
MaxElapsed == 1
\* how many times the program is started in SpecRepeat
MaxRuns == 2

(***************************************************************************)
(* Constants of the program.                                               *)
(***************************************************************************)
DEFAULT_N_BITS == 200
DEFAULT_BITS_PER_VALUE == 32
UNWRAP_OR_BPV == 32
WordBits == 64
ByteBits == 8

(***************************************************************************)
(* u64 and u8 arithmetic.                                                  *)
(***************************************************************************)
RECURSIVE Pow2(_)
Pow2(k) == IF k = 0 THEN 1 ELSE 2 * Pow2(k - 1)

\* bit j of the byte b
ByteBit(b, j) == (b \div Pow2(j)) % 2

\* the one-bits of the byte b, as a u64 (`*byte as u64`)
ByteAsU64(b) == {j \in 0..(ByteBits - 1) : ByteBit(b, j) = 1}

\* a ^ b on bytes: bit by bit, the sum of the two bits modulo 2
ByteXor(a, b) ==
    LET X(j) == ((ByteBit(a, j) + ByteBit(b, j)) % 2) * Pow2(j)
    IN  X(0) + X(1) + X(2) + X(3) + X(4) + X(5) + X(6) + X(7)

\* v << s on u64 for s < 64: the bits shifted out of the word are lost
Shl(v, s) == {i + s : i \in v} \cap (0..(WordBits - 1))

\* (v >> i) & 1 for i < 64
Bit(v, i) == IF i \in v THEN 1 ELSE 0

\* A shift of a u64 by s >= 64 panics where overflow is checked (dev builds)
\* and shifts by s mod 64 where it is not (release builds).
ShiftPanics(s) == overflow_checks /\ s >= WordBits
ShiftAmount(s) == s % WordBits

(***************************************************************************)
(* The cipher: ChaCha20 under the all-zero key and nonce, block counter 0. *)
(* Keystream[i + 1] is keystream byte i.                                   *)
(***************************************************************************)
Keystream ==
  <<
    118, 184, 224, 173, 160, 241,  61, 144,  64,  93, 106, 229,  83, 134, 189,  40,
    189, 210,  25, 184, 160, 141, 237,  26, 168,  54, 239, 204, 139, 119,  13, 199,
    218,  65,  89, 124,  81,  87,  72, 141, 119,  36, 224,  63, 184, 216,  74,  55,
    106,  67, 184, 244,  21,  24, 161,  28, 195, 135, 182, 105, 178, 238, 101, 134,
    159,   7, 231, 190,  85,  81,  56, 122, 152, 186, 151, 124, 115,  45,   8,  13,
    203,  15,  41, 160,  72, 227, 101, 105,  18, 198,  83,  62,  50, 238, 122, 237,
     41, 183,  33, 118, 156, 230,  78,  67, 213, 113,  51, 176, 116, 216,  57, 213,
     49, 237,  31,  40,  81,  10, 251,  69, 172, 225,  10,  31,  75, 121,  77, 111,
     45,   9, 160, 230,  99,  38, 108, 225, 174, 126, 209,   8,  25, 104, 160, 117,
    142, 113, 142, 153, 123, 211,  98, 198, 176, 195,  70,  52, 169, 160, 179,  93,
      1,  39,  55, 104,  31, 123,  93,  15,  40,  30,  58, 253, 228,  88, 188,  30,
    115, 210, 211,  19, 201, 207, 148, 192,  95, 243, 113,  98,  64, 162,  72, 242,
     19,  32, 160,  88, 215, 179,  86, 107, 213,  32, 218, 170,  62, 210, 191,  10,
    197, 184, 177,  32, 251, 133,  39, 115, 195,  99, 151,  52, 180,  92, 145, 164,
     45, 212, 203, 131, 248, 132,  13,  46, 237, 177,  88,  19,  16,  98, 172,  63,
     31,  44, 248, 255, 109, 205,  24,  86, 232, 106,  30, 108,  49, 103,  22, 126
  >>

\* mutant: a cipher whose starting position depends on the run
NewCipherPerRun == [created |-> TRUE, pos |-> runs]

\* ChaCha20::new(key, nonce): a cipher at the start of its keystream
NewCipher == [created |-> TRUE, pos |-> 0]

\* no cipher has been built
NoCipher == [created |-> FALSE, pos |-> 0]

\* cipher.apply_keystream(&mut buffer): XORs the next Len(buf) keystream
\* bytes, from position pos on, INTO the bytes the buffer already holds
ApplyKeystream(pos, buf) ==
    [i \in 1..Len(buf) |-> ByteXor(buf[i], Keystream[pos + i])]

(***************************************************************************)
(* chacha20_bit_stream: the steps of one loop iteration.                   *)
(***************************************************************************)
\* bits_per_value.unwrap_or(d); Some(x) is <<x>> and None is <<>>
Some(x) == <<x>>

\* mutant: a width of 0 is taken for "not given"
UnwrapOrNonZero(opt, d) == IF Len(opt) = 0 \/ opt[1] = 0 THEN d ELSE opt[1]

UnwrapOr(opt, d) == IF Len(opt) = 0 THEN d ELSE opt[1]

\* (bpv + 7) / 8
NumBytes(b) == (b + 7) \div ByteBits

\* vec![0u8; num_bytes]
ZeroBuffer(n) == [i \in 1..n |-> 0]

\* val after `val = (val << 8) | (*byte as u64)` over the first k bytes
RECURSIVE PackPrefix(_, _)
PackPrefix(buf, k) ==
    IF k = 0 THEN {}
    ELSE Shl(PackPrefix(buf, k - 1), ByteBits) \cup ByteAsU64(buf[k])

PackBigEndian(buf) == PackPrefix(buf, Len(buf))

\* `1u64 << bpv` is evaluated only when bpv < num_bytes * 8
MaskPanics(b, nb) == b < nb * ByteBits /\ ShiftPanics(b)

\* mutant: the mask is left out
MaskValueNone(v, b, nb) == v

\* if bpv < max_bits { val = val & ((1u64 << bpv) - 1) }
MaskValue(v, b, nb) ==
    IF b < nb * ByteBits THEN v \cap (0..(ShiftAmount(b) - 1)) ELSE v

\* int_to_bits evaluates value >> i for every i in 0..bits
IntToBitsPanics(bits) == \E i \in 0..(bits - 1) : ShiftPanics(i)

\* mutant: the flag is ignored, the bits always come least significant first
IntToBitsLsbFirst(value, bits, msb) ==
    IF bits = 0 THEN << >>
    ELSE [k \in 1..bits |-> Bit(value, ShiftAmount(k - 1))]

\* int_to_bits(value, bits, msb_first), when it does not panic
IntToBits(value, bits, msb) ==
    IF bits = 0 THEN << >>
    ELSE IF msb
         THEN [k \in 1..bits |-> Bit(value, ShiftAmount(bits - k))]
         ELSE [k \in 1..bits |-> Bit(value, ShiftAmount(k - 1))]

\* mutant: no early return
EarlyReturnNever(n) == FALSE

\* if n_bits == 0 { return (Vec::new(), 0.0) }
EarlyReturn(n) == n = 0

\* mutant: the last chunk is not truncated
ExtendWhole(out, bits, remaining) == out \o bits

\* mutant: the last chunk loses its head, not its tail
ExtendTail(out, bits, remaining) ==
    IF remaining >= Len(bits) THEN out \o bits
    ELSE out \o SubSeq(bits, Len(bits) - remaining + 1, Len(bits))

\* mutant: a chunk that does not fit is dropped
ExtendIfFits(out, bits, remaining) ==
    IF remaining >= Len(bits) THEN out \o bits ELSE out

\* output.extend(&bits) or output.extend(&bits[..remaining])
Extend(out, bits, remaining) ==
    IF remaining >= Len(bits) THEN out \o bits
    ELSE out \o SubSeq(bits, 1, remaining)

(***************************************************************************)
(* main: the resolution of the arguments.                                  *)
(***************************************************************************)
DigitChars == <<"0", "1", "2", "3", "4", "5", "6", "7", "8", "9">>
UpperChars == <<"A", "B", "C", "D", "E", "F", "G", "H", "I", "J", "K", "L", "M",
                "N", "O", "P", "Q", "R", "S", "T", "U", "V", "W", "X", "Y", "Z">>
LowerChars == <<"a", "b", "c", "d", "e", "f", "g", "h", "i", "j", "k", "l", "m",
                "n", "o", "p", "q", "r", "s", "t", "u", "v", "w", "x", "y", "z">>

IsDigit(c) == \E d \in 1..Len(DigitChars) : DigitChars[d] = c
DigitValue(c) == (CHOOSE d \in 1..Len(DigitChars) : DigitChars[d] = c) - 1

\* usize::MAX on a 64-bit target, in decimal
UsizeMaxDigits ==
    <<"1", "8", "4", "4", "6", "7", "4", "4", "0", "7",
      "3", "7", "0", "9", "5", "5", "1", "6", "1", "5">>

RECURSIVE StripZeros(_)
StripZeros(s) ==
    IF Len(s) > 1 /\ s[1] = "0" THEN StripZeros(Tail(s)) ELSE s

\* the digit strings s and t have the same length and s > t as numbers
RECURSIVE DigitsGreater(_, _)
DigitsGreater(s, t) ==
    /\ Len(s) > 0
    /\ \/ DigitValue(s[1]) > DigitValue(t[1])
       \/ s[1] = t[1] /\ DigitsGreater(Tail(s), Tail(t))

\* the number a digit string writes does not fit a usize
ExceedsUsize(s) ==
    LET d == StripZeros(s) IN
    \/ Len(d) > Len(UsizeMaxDigits)
    \/ Len(d) = Len(UsizeMaxDigits) /\ DigitsGreater(d, UsizeMaxDigits)

RECURSIVE DecimalValue(_)
DecimalValue(s) ==
    IF Len(s) = 0 THEN 0
    ELSE 10 * DecimalValue(SubSeq(s, 1, Len(s) - 1)) + DigitValue(s[Len(s)])

ParseErr == [ok |-> FALSE, val |-> 0]

\* str::parse::<usize>: an optional "+", then one or more decimal digits
\* whose value fits a usize; anything else is an Err
ParseUsize(s) ==
    LET digits == IF Len(s) > 1 /\ s[1] = "+" THEN Tail(s) ELSE s IN
    IF Len(digits) = 0 \/ \E i \in 1..Len(digits) : ~IsDigit(digits[i])
    THEN ParseErr
    ELSE IF ExceedsUsize(digits) THEN ParseErr
    ELSE [ok |-> TRUE, val |-> DecimalValue(digits)]

\* char::to_lowercase on the characters of the model's alphabet
LowerChar(c) ==
    IF \E u \in 1..Len(UpperChars) : UpperChars[u] = c
    THEN LowerChars[CHOOSE u \in 1..Len(UpperChars) : UpperChars[u] = c]
    ELSE c

\* String::to_lowercase
ToLowercase(s) == [i \in 1..Len(s) |-> LowerChar(s[i])]

FalseLiteral == <<"f", "a", "l", "s", "e">>

\* Rust's args[i] is a[i + 1]: a[1] is the program name
ResolveNBits(a) ==
    IF Len(a) > 1 /\ ParseUsize(a[2]).ok
    THEN ParseUsize(a[2]).val ELSE DEFAULT_N_BITS

ResolveBitsPerValue(a) ==
    IF Len(a) > 2 /\ ParseUsize(a[3]).ok
    THEN ParseUsize(a[3]).val ELSE DEFAULT_BITS_PER_VALUE

\* mutant: the comparison with "false" minds the case
ResolveMsbFirstExact(a) ==
    IF Len(a) > 3 THEN a[4] # FalseLiteral ELSE TRUE

ResolveMsbFirst(a) ==
    IF Len(a) > 3 THEN ToLowercase(a[4]) # FalseLiteral ELSE TRUE

(***************************************************************************)
(* The command lines the model runs the program with.                      *)
(***************************************************************************)
RECURSIVE Decimal(_)
Decimal(n) ==
    IF n < 10 THEN <<DigitChars[n + 1]>>
    ELSE Decimal(n \div 10) \o <<DigitChars[(n % 10) + 1]>>

ProgramName == <<"r", "n", "g">>

\* one more than usize::MAX
TooLarge ==
    <<"1", "8", "4", "4", "6", "7", "4", "4", "0", "7",
      "3", "7", "0", "9", "5", "5", "1", "6", "1", "6">>

BpvWidths == {0, 1, 3, 8, 12, 16, 64, 65, 72}

NBitsArgs ==
    {Decimal(n) : n \in 0..MaxNBits}
        \cup {<<"+", "2">>, <<"0", "0", "3">>, << >>, <<"-", "1">>, TooLarge}

BitsPerValueArgs ==
    {Decimal(b) : b \in BpvWidths} \cup {<<"+">>, <<"8", "x">>}

MsbFirstArgs ==
    {FalseLiteral, <<"F", "A", "L", "S", "E">>, <<"F", "a", "l", "s", "e">>,
     <<"t", "r", "u", "e">>, <<"0">>, <<"f", "a", "l", "s">>, << >>}

ArgVectors ==
    {<<ProgramName>>}
        \cup {<<ProgramName, a>> : a \in NBitsArgs}
        \cup {<<ProgramName, a, b>> : a \in NBitsArgs, b \in BitsPerValueArgs}
        \cup {<<ProgramName, a, b, c>> :
                a \in NBitsArgs, b \in BitsPerValueArgs, c \in MsbFirstArgs}
        \cup {<<ProgramName, Decimal(MaxNBits), Decimal(3), c, c>> :
                c \in MsbFirstArgs}

\* the well-formed command lines the program is run with more than once
RepeatArgVectors ==
    {<<ProgramName>>}
        \cup {<<ProgramName, Decimal(n), Decimal(b), c>> :
                n \in 0..MaxNBits, b \in BpvWidths,
                c \in {FalseLiteral, <<"t", "r", "u", "e">>}}

(***************************************************************************)
(* The state before the program is started.                                *)
(***************************************************************************)
NoCall == [n_bits |-> 0, bits_per_value |-> 0, msb_first |-> TRUE,
           bits |-> << >>, returned |-> FALSE]

NotApplied == [fn |-> "none"]

\* val before the first iteration: not a u64
NoValue == {-1}

Unstarted ==
    /\ args = << >>
    /\ n_bits = 0
    /\ bits_per_value = 0
    /\ msb_first = TRUE
    /\ bpv = 0
    /\ num_bytes = 0
    /\ cipher = NoCipher
    /\ buffer = << >>
    /\ val = NoValue
    /\ output = << >>
    /\ elapsed = 0
    /\ stdout = << >>
    /\ pc = "start"

Init ==
    /\ Unstarted
    /\ overflow_checks \in BOOLEAN
    /\ runs = 0
    /\ prev = NoCall
    /\ fn_in = NotApplied
    /\ fn_out = NotApplied

(***************************************************************************)
(* The program.                                                            *)
(***************************************************************************)
\* the return of chacha20_bit_stream with (bits, time), and the rest of main:
\* one line {"bits": [...], "time": ...} on standard output
Finish(bits, time) ==
    /\ elapsed' = time
    /\ stdout' = Append(stdout, [bits |-> bits, time |-> time])
    /\ pc' = "exited"

\* main up to and into chacha20_bit_stream, as far as the first test of the
\* loop condition
RunMain(a) ==
    /\ pc = "start"
    /\ args' = a
    /\ n_bits' = ResolveNBits(a)
    /\ bits_per_value' = ResolveBitsPerValue(a)
    /\ msb_first' = ResolveMsbFirst(a)
    /\ runs' = runs + 1
    /\ IF EarlyReturn(n_bits')
       THEN /\ Finish(<< >>, 0)
            /\ UNCHANGED <<bpv, num_bytes, cipher, buffer, val, output>>
       ELSE /\ bpv' = UnwrapOr(Some(bits_per_value'), UNWRAP_OR_BPV)
            /\ num_bytes' = NumBytes(bpv')
            /\ cipher' = NewCipher
            /\ output' = << >>
            /\ buffer' = ZeroBuffer(num_bytes')
            /\ pc' = "loop"
            /\ UNCHANGED <<val, elapsed, stdout>>
    /\ UNCHANGED <<overflow_checks, prev, fn_in, fn_out>>

Main == \E a \in ArgVectors : RunMain(a)

MainAgain == \E a \in RepeatArgVectors : RunMain(a)

\* one iteration of `while output.len() < n_bits`
LoopIter ==
    /\ pc = "loop"
    /\ Len(output) < n_bits
    /\ cipher' = [cipher EXCEPT !.pos = @ + num_bytes]
    /\ buffer' = ApplyKeystream(cipher.pos, buffer)
    /\ val' = IF MaskPanics(bpv, num_bytes)
              THEN PackBigEndian(buffer')
              ELSE MaskValue(PackBigEndian(buffer'), bpv, num_bytes)
    /\ IF MaskPanics(bpv, num_bytes) \/ IntToBitsPanics(bpv)
       THEN /\ pc' = "panicked"
            /\ UNCHANGED output
       ELSE /\ output' = Extend(output, IntToBits(val', bpv, msb_first),
                                n_bits - Len(output))
            /\ pc' = "loop"
    /\ UNCHANGED <<args, n_bits, bits_per_value, msb_first, bpv, num_bytes,
                   elapsed, stdout, overflow_checks, runs, prev, fn_in, fn_out>>

\* the loop condition fails: start.elapsed() is read, the function returns and
\* main prints
Return ==
    /\ pc = "loop"
    /\ ~(Len(output) < n_bits)
    /\ \E t \in 0..MaxElapsed : Finish(output, t)
    /\ UNCHANGED <<args, n_bits, bits_per_value, msb_first, bpv, num_bytes,
                   cipher, buffer, val, output, overflow_checks, runs, prev,
                   fn_in, fn_out>>

\* the program is started again: a new process, nothing of the old one left.
\* prev remembers what the old one was called with and printed, if it printed
Restart ==
    /\ pc \in {"exited", "panicked"}
    /\ runs < MaxRuns
    /\ prev' = IF pc = "exited"
               THEN [n_bits |-> n_bits, bits_per_value |-> bits_per_value,
                     msb_first |-> msb_first, bits |-> stdout[1].bits,
                     returned |-> TRUE]
               ELSE NoCall
    /\ args' = << >>
    /\ n_bits' = 0
    /\ bits_per_value' = 0
    /\ msb_first' = TRUE
    /\ bpv' = 0
    /\ num_bytes' = 0
    /\ cipher' = NoCipher
    /\ buffer' = << >>
    /\ val' = NoValue
    /\ output' = << >>
    /\ elapsed' = 0
    /\ stdout' = << >>
    /\ pc' = "start"
    /\ UNCHANGED <<overflow_checks, runs, fn_in, fn_out>>

Next == Main \/ LoopIter \/ Return

Spec == Init /\ [][Next]_vars

\* the loop and the return are steps of one sequential thread: it keeps running
SpecLive == Spec /\ WF_vars(LoopIter) /\ WF_vars(Return)

NextRepeat == MainAgain \/ LoopIter \/ Return \/ Restart

SpecRepeat == Init /\ [][NextRepeat]_vars

(***************************************************************************)
(* int_to_bits, and the extraction of lines 67-77, applied on their own to *)
(* arguments drawn from sample sets.                                       *)
(***************************************************************************)
SampleValues ==
    {{}, {0}, {WordBits - 1}, 0..(WordBits - 1), ByteAsU64(165),
     {i \in 0..(WordBits - 1) : i % 2 = 1}, {0, 1, 2, 40, WordBits - 1}}

SampleBytes == {165, 255}

IntToBitsInputs ==
    {[fn |-> "int_to_bits", value |-> v, bits |-> b, msb_first |-> m] :
        v \in SampleValues, b \in 0..MaxWidth, m \in BOOLEAN}

ExtractInputs ==
    UNION {{[fn |-> "extract", buffer |-> buf, bpv |-> b] :
                buf \in [1..NumBytes(b) -> SampleBytes]} : b \in 0..MaxWidth}

InitPure ==
    /\ Unstarted
    /\ overflow_checks \in BOOLEAN
    /\ runs = 0
    /\ prev = NoCall
    /\ fn_in \in IntToBitsInputs \cup ExtractInputs
    /\ fn_out = NotApplied

\* int_to_bits(value, bits, msb_first)
CallIntToBits ==
    /\ fn_in.fn = "int_to_bits"
    /\ fn_out = NotApplied
    /\ fn_out' =
         IF IntToBitsPanics(fn_in.bits)
         THEN [fn |-> "int_to_bits", panicked |-> TRUE, bits |-> << >>]
         ELSE [fn |-> "int_to_bits", panicked |-> FALSE,
               bits |-> IntToBits(fn_in.value, fn_in.bits, fn_in.msb_first)]
    /\ UNCHANGED <<args, n_bits, bits_per_value, msb_first, bpv, num_bytes,
                   cipher, buffer, val, output, elapsed, stdout, pc,
                   overflow_checks, runs, prev, fn_in>>

\* lines 67-77 on a buffer of num_bytes = (bpv + 7) / 8 bytes
CallExtract ==
    /\ fn_in.fn = "extract"
    /\ fn_out = NotApplied
    /\ LET nb == NumBytes(fn_in.bpv)
           packed == PackBigEndian(fn_in.buffer)
       IN  fn_out' =
             IF MaskPanics(fn_in.bpv, nb)
             THEN [fn |-> "extract", panicked |-> TRUE, val |-> packed]
             ELSE [fn |-> "extract", panicked |-> FALSE,
                   val |-> MaskValue(packed, fn_in.bpv, nb)]
    /\ UNCHANGED <<args, n_bits, bits_per_value, msb_first, bpv, num_bytes,
                   cipher, buffer, val, output, elapsed, stdout, pc,
                   overflow_checks, runs, prev, fn_in>>

NextPure == CallIntToBits \/ CallExtract

SpecPure == InitPure /\ [][NextPure]_vars

(***************************************************************************)
(* Properties.                                                             *)
(***************************************************************************)
Reverse(s) == [i \in 1..Len(s) |-> s[Len(s) + 1 - i]]

IsPrefix(s, t) == Len(s) <= Len(t) /\ s = SubSeq(t, 1, Len(s))

\* the run before this one returned, and was called with the same
\* bits_per_value and msb_first
SameParameters ==
    /\ prev.returned
    /\ prev.bits_per_value = bits_per_value
    /\ prev.msb_first = msb_first

\* C1: the output never holds more than n_bits bits while the loop runs, and
\* what chacha20_bit_stream returns (and main prints) holds exactly n_bits,
\* whatever bits_per_value and msb_first are.
C1_OutputLengthExact ==
    /\ Len(output) <= n_bits
    /\ pc = "exited" =>
         /\ Len(output) = n_bits
         /\ Len(stdout) = 1
         /\ Len(stdout[1].bits) = n_bits

C1_Witness ==
    /\ pc = "exited"
    /\ n_bits = 5
    /\ bpv = 3
    /\ cipher.pos = 2
    /\ Len(output) = 5

\* C2: with the same bits_per_value and msb_first, the output for the smaller
\* n_bits is a prefix of the output for the larger one; and when the last
\* chunk overshoots, the output ends with the FIRST n_bits mod bpv bits of the
\* expansion of the last value.
C2_PrefixConsistent ==
    /\ (pc = "exited" /\ SameParameters) =>
         /\ prev.n_bits <= n_bits => IsPrefix(prev.bits, output)
         /\ n_bits <= prev.n_bits => IsPrefix(output, prev.bits)
    /\ (pc = "exited" /\ n_bits > 0 /\ bpv > 0 /\ n_bits % bpv # 0) =>
         LET r == n_bits % bpv IN
         SubSeq(output, n_bits - r + 1, n_bits)
             = SubSeq(IntToBits(val, bpv, msb_first), 1, r)

C2_Witness ==
    /\ pc = "exited"
    /\ SameParameters
    /\ bpv = 3
    /\ prev.n_bits = 2
    /\ n_bits = 5
    /\ prev.bits = SubSeq(output, 1, 2)

\* C3: two runs with the same n_bits, bits_per_value and msb_first print the
\* same bits, and every run enters its loop with a cipher at the start of the
\* keystream and an all-zero buffer, whatever ran before.
C3_Deterministic ==
    /\ (pc = "exited" /\ SameParameters /\ prev.n_bits = n_bits) =>
         output = prev.bits
    /\ (pc = "loop" /\ val = NoValue) =>
         /\ cipher = [created |-> TRUE, pos |-> 0]
         /\ buffer = [i \in 1..num_bytes |-> 0]

C3_Witness ==
    /\ pc = "exited"
    /\ runs = 2
    /\ SameParameters
    /\ prev.n_bits = n_bits
    /\ n_bits = 5
    /\ bpv = 3
    /\ output = prev.bits

\* C4: a run with n_bits = 0 returns at once: no bits, a time of exactly 0,
\* no cipher built, no iteration run, whatever bits_per_value and msb_first.
C4_ZeroBitsShortCircuit ==
    (pc # "start" /\ n_bits = 0) =>
        /\ pc = "exited"
        /\ output = << >>
        /\ elapsed = 0
        /\ stdout = <<[bits |-> << >>, time |-> 0]>>
        /\ ~cipher.created
        /\ val = NoValue

C4_Witness ==
    /\ pc = "exited"
    /\ n_bits = 0
    /\ bits_per_value = 72
    /\ ~msb_first
    /\ stdout = <<[bits |-> << >>, time |-> 0]>>

\* an iteration is about to run
InLoop == pc = "loop" /\ Len(output) < n_bits

\* C5, as claimed: for any positive bits_per_value every iteration appends at
\* least one bit.
C5_EveryIterationAppends ==
    [][(InLoop /\ bpv >= 1) => Len(output') > Len(output)]_vars

\* C5, amended: for bits_per_value in 1..64 every iteration appends at least
\* one bit and the loop goes on, at most n_bits iterations run (each takes
\* num_bytes keystream bytes), and the run returns.
C5_TerminatesUpToWordBits ==
    /\ [][(InLoop /\ bpv \in 1..WordBits) =>
            (Len(output') > Len(output) /\ pc' = "loop")]_vars
    /\ []((pc # "start" /\ bpv \in 1..WordBits) =>
            cipher.pos <= n_bits * num_bytes)
    /\ (pc = "loop" /\ bpv \in 1..WordBits) ~> (pc = "exited")

C5_Witness ==
    /\ pc = "exited"
    /\ bpv = 1
    /\ n_bits = DEFAULT_N_BITS
    /\ cipher.pos = n_bits

\* s is "false" in some mix of upper and lower case
IsFalseIgnoringCase(s) ==
    /\ Len(s) = 5
    /\ s[1] \in {"f", "F"}
    /\ s[2] \in {"a", "A"}
    /\ s[3] \in {"l", "L"}
    /\ s[4] \in {"s", "S"}
    /\ s[5] \in {"e", "E"}

\* C6: each argument is resolved on its own: n_bits and bits_per_value are the
\* parsed number when the argument is there and parses, else 200 and 32;
\* msb_first is false exactly when the third argument is there and is "false"
\* in any case; and the run goes on into the function whatever was given.
C6_ArgumentsResolved ==
    pc # "start" =>
        /\ n_bits = IF Len(args) >= 2 /\ ParseUsize(args[2]).ok
                    THEN ParseUsize(args[2]).val ELSE 200
        /\ bits_per_value = IF Len(args) >= 3 /\ ParseUsize(args[3]).ok
                            THEN ParseUsize(args[3]).val ELSE 32
        /\ msb_first = ~(Len(args) >= 4 /\ IsFalseIgnoringCase(args[4]))
        /\ n_bits > 0 => bpv = bits_per_value

C6_Witness ==
    /\ pc = "exited"
    /\ args = <<ProgramName, <<"-", "1">>, <<"8", "x">>, <<"F", "A", "L", "S", "E">>>>
    /\ n_bits = 200
    /\ bits_per_value = 32
    /\ msb_first = FALSE

\* C7, as claimed: after iteration k the buffer holds keystream bytes
\* k * num_bytes .. (k + 1) * num_bytes - 1 and nothing of what it held.
C7_BufferHoldsFreshKeystream ==
    (pc \in {"loop", "exited"} /\ val # NoValue) =>
        buffer = [i \in 1..num_bytes |-> Keystream[cipher.pos - num_bytes + i]]

\* bit i of the number the bytes of buf write, the first byte the most
\* significant
BigEndianBit(buf, i) ==
    LET k == Len(buf) - (i \div 8) IN
    k >= 1 /\ (buf[k] \div Pow2(i % 8)) % 2 = 1

\* C8: for bits_per_value in 1..64 the extraction does not overflow, and the
\* value it gives is the big-endian number of the buffer reduced to its low
\* bits_per_value bits: it has no one-bit at position bits_per_value or above.
C8_MaskedValueInRange ==
    (fn_out.fn = "extract" /\ fn_in.bpv \in 1..64) =>
        /\ ~fn_out.panicked
        /\ \A i \in fn_out.val : i < fn_in.bpv
        /\ fn_out.val = {i \in 0..(fn_in.bpv - 1) : BigEndianBit(fn_in.buffer, i)}

C8_Witness ==
    /\ fn_out.fn = "extract"
    /\ fn_in.bpv = 5
    /\ fn_in.buffer = <<255>>
    /\ fn_out.val = 0..4

\* (value >> i) & 1 of a 64-bit value, as a number
MathBit(value, i) == IF i \in value THEN 1 ELSE 0

\* what C9 says of int_to_bits(value, bits, msb_first) = result
ExpandsAsClaimed ==
    /\ ~fn_out.panicked
    /\ Len(fn_out.bits) = fn_in.bits
    /\ fn_in.bits > 0 =>
         fn_out.bits[1] = IF fn_in.msb_first
                          THEN MathBit(fn_in.value, fn_in.bits - 1)
                          ELSE MathBit(fn_in.value, 0)
    /\ fn_out.bits
         = Reverse(IntToBits(fn_in.value, fn_in.bits, ~fn_in.msb_first))

\* C9, as claimed: for every width.
C9_ReverseForEveryWidth ==
    fn_out.fn = "int_to_bits" => ExpandsAsClaimed

\* C9, amended: for every width from 0 to 64, int_to_bits gives exactly that
\* many bits, the first one bit width-1 (msb_first) or bit 0 of the value, and
\* the two orders are each other's reverse.
C9_ReverseUpToWordBits ==
    (fn_out.fn = "int_to_bits" /\ fn_in.bits <= WordBits) => ExpandsAsClaimed

C9_Witness ==
    /\ fn_out.fn = "int_to_bits"
    /\ fn_in.value = {0, 1, 2, 40, WordBits - 1}
    /\ fn_in.bits = WordBits
    /\ fn_in.msb_first
    /\ fn_out.bits[1] = 1
    /\ fn_out.bits[2] = 0
    /\ fn_out.bits[WordBits] = 1

\* C10: with bits_per_value = 0 and n_bits > 0 the run stays in the loop for
\* good: the buffer is empty, every value expands to no bits, the output stays
\* empty, the loop condition stays true and nothing is printed.
C10_ZeroWidthNeverReturns ==
    (pc # "start" /\ bits_per_value = 0 /\ n_bits > 0) =>
        /\ pc = "loop"
        /\ num_bytes = 0
        /\ buffer = << >>
        /\ val # NoValue => IntToBits(val, bpv, msb_first) = << >>
        /\ output = << >>
        /\ Len(output) < n_bits
        /\ stdout = << >>

C10_Witness ==
    /\ pc = "loop"
    /\ Len(args) >= 3
    /\ args[3] = <<"0">>
    /\ n_bits = 5
    /\ bpv = 0
    /\ val = {}
    /\ output = << >>

====
